---- MODULE Spec2Model ----
(***************************************************************************)
(* A model of blivet's byte-quantity type (blivet/size.py, exercised by    *)
(* tests/size_test.py) and of its active-mountpoints cache                  *)
(* (blivet/mounts.py).                                                      *)
(*                                                                          *)
(* Text is a sequence of one-character strings.  A decimal number is kept   *)
(* exactly as c * 2^p2 * 5^p5 (every finite decimal has this form), so      *)
(* that the prefixes up to 1024^8 and 1000^8 need no wide integers.         *)
(***************************************************************************)
EXTENDS Integers, Sequences, FiniteSets, TLC

VARIABLES
    op,           \* Size subsystem: the operation of the current call
    args,         \* Size subsystem: its arguments
    ret,          \* Size subsystem: its result, or "pending"
    procState,    \* the system's mount state (sequence of mounts)
    history,      \* every mount state the system has held so far
    changes,      \* how many times the mount state has changed
    mountsHash,   \* MountsCache.mountsHash
    mountpoints,  \* MountsCache.mountpoints
    pc,           \* per caller: position in its query
    query,        \* per caller: the query being served
    md5hash,      \* per caller: local md5hash of _cacheCheck
    mounts,       \* per caller: the lines read from /proc/mounts
    lineno,       \* per caller: index of the next line to process
    mountinfo,    \* per caller: _MountinfoCache._cache (None until read)
    result,       \* per caller: value returned by the last query
    calls,        \* number of queries started
    locked        \* whether the callers serialize queries by a lock

sizeVars == <<op, args, ret>>
mountVars == <<procState, history, changes, mountsHash, mountpoints, pc,
               query, md5hash, mounts, lineno, mountinfo, result,
               calls, locked>>
vars == <<op, args, ret, procState, history, changes, mountsHash,
          mountpoints, pc, query, md5hash, mounts, lineno, mountinfo,
          result, calls, locked>>

(***************************************************************************)
(* Bounds of the model.                                                     *)
(***************************************************************************)
MaxNumUnits == 12
MaxTextLen == 3
MaxBytes == 40
MaxGranularity == 6
MaxChanges == 2
MaxCalls == 2

Fail == "ValueError"

(***************************************************************************)
(* Exact decimals: [c, p2, p5] stands for c * 2^p2 * 5^p5, normalised so    *)
(* that c is divisible by neither 2 nor 5 (and 0 is [0, 0, 0]).             *)
(***************************************************************************)
RECURSIVE DecNorm(_, _, _)
DecNorm(c, p2, p5) ==
    IF c = 0 THEN [c |-> 0, p2 |-> 0, p5 |-> 0]
    ELSE IF c % 2 = 0 THEN DecNorm(c \div 2, p2 + 1, p5)
    ELSE IF c % 5 = 0 THEN DecNorm(c \div 5, p2, p5 + 1)
    ELSE [c |-> c, p2 |-> p2, p5 |-> p5]

DecFromInt(n) == DecNorm(n, 0, 0)

\* d * 2^a * 5^b
DecScale(d, a, b) == DecNorm(d.c, d.p2 + a, d.p5 + b)

DecIsIntegral(d) == d.c = 0 \/ (d.p2 >= 0 /\ d.p5 >= 0)

Abs(n) == IF n < 0 THEN 0 - n ELSE n

Sign(n) == IF n < 0 THEN 0 - 1 ELSE 1

RECURSIVE Pow(_, _)
Pow(b, e) == IF e <= 0 THEN 1 ELSE b * Pow(b, e - 1)

Pos(n) == IF n > 0 THEN n ELSE 0

\* numerator and denominator of |d| as plain integers
DecNum(d) == Abs(d.c) * Pow(2, Pos(d.p2)) * Pow(5, Pos(d.p5))
DecDen(d) == Pow(2, Pos(0 - d.p2)) * Pow(5, Pos(0 - d.p5))

(***************************************************************************)
(* Text.  Unit tokens are matched after ASCII case folding.                 *)
(***************************************************************************)
UpperCase == <<"A","B","C","D","E","F","G","H","I","J","K","L","M",
               "N","O","P","Q","R","S","T","U","V","W","X","Y","Z">>
LowerCase == <<"a","b","c","d","e","f","g","h","i","j","k","l","m",
               "n","o","p","q","r","s","t","u","v","w","x","y","z">>
DigitChars == <<"0","1","2","3","4","5","6","7","8","9">>

IsDigit(ch) == \E i \in 1..10 : DigitChars[i] = ch
DigitValue(ch) == (CHOOSE i \in 1..10 : DigitChars[i] = ch) - 1
IsSpace(ch) == ch = " "
IsSignChar(ch) == ch = "+" \/ ch = "-"
IsExpMark(ch) == ch = "e" \/ ch = "E"

LowerChar(ch) ==
    IF \E i \in 1..26 : UpperCase[i] = ch
    THEN LowerCase[CHOOSE i \in 1..26 : UpperCase[i] = ch]
    ELSE ch

\* size._lowerASCII
lowerASCII(s) == [i \in 1..Len(s) |-> LowerChar(s[i])]

\* size._makeSpec with xlate = False: prefix and suffix joined, lower-cased
\* unless the caller asks for the case to be kept
makeSpec(prefix, suffix, lowercase) ==
    IF lowercase THEN lowerASCII(prefix \o suffix) ELSE prefix \o suffix

(***************************************************************************)
(* The unit catalog: the empty prefix, the binary prefixes (powers of       *)
(* 1024) and the decimal prefixes (powers of 1000).                         *)
(***************************************************************************)
BYTES_SYMBOL == <<"B">>
BYTES_WORDS == << <<"b","y","t","e","s">>, <<"b","y","t","e">> >>

EMPTY_PREFIX == [prefix |-> <<>>, abbr |-> <<>>, kind |-> "none", power |-> 0]

BINARY_PREFIXES == <<
    [prefix |-> <<"k", "i", "b", "i">>, abbr |-> <<"K", "i">>, kind |-> "binary", power |-> 1],
    [prefix |-> <<"m", "e", "b", "i">>, abbr |-> <<"M", "i">>, kind |-> "binary", power |-> 2],
    [prefix |-> <<"g", "i", "b", "i">>, abbr |-> <<"G", "i">>, kind |-> "binary", power |-> 3],
    [prefix |-> <<"t", "e", "b", "i">>, abbr |-> <<"T", "i">>, kind |-> "binary", power |-> 4],
    [prefix |-> <<"p", "e", "b", "i">>, abbr |-> <<"P", "i">>, kind |-> "binary", power |-> 5],
    [prefix |-> <<"e", "x", "b", "i">>, abbr |-> <<"E", "i">>, kind |-> "binary", power |-> 6],
    [prefix |-> <<"z", "e", "b", "i">>, abbr |-> <<"Z", "i">>, kind |-> "binary", power |-> 7],
    [prefix |-> <<"y", "o", "b", "i">>, abbr |-> <<"Y", "i">>, kind |-> "binary", power |-> 8]
>>

DECIMAL_PREFIXES == <<
    [prefix |-> <<"k", "i", "l", "o">>, abbr |-> <<"K">>, kind |-> "decimal", power |-> 1],
    [prefix |-> <<"m", "e", "g", "a">>, abbr |-> <<"M">>, kind |-> "decimal", power |-> 2],
    [prefix |-> <<"g", "i", "g", "a">>, abbr |-> <<"G">>, kind |-> "decimal", power |-> 3],
    [prefix |-> <<"t", "e", "r", "a">>, abbr |-> <<"T">>, kind |-> "decimal", power |-> 4],
    [prefix |-> <<"p", "e", "t", "a">>, abbr |-> <<"P">>, kind |-> "decimal", power |-> 5],
    [prefix |-> <<"e", "x", "a">>, abbr |-> <<"E">>, kind |-> "decimal", power |-> 6],
    [prefix |-> <<"z", "e", "t", "t", "a">>, abbr |-> <<"Z">>, kind |-> "decimal", power |-> 7],
    [prefix |-> <<"y", "o", "t", "t", "a">>, abbr |-> <<"Y">>, kind |-> "decimal", power |-> 8]
>>

Catalog == <<EMPTY_PREFIX>> \o BINARY_PREFIXES \o DECIMAL_PREFIXES

\* exponents of 2 and of 5 in a unit's factor: 1024 = 2^10, 1000 = 2^3 * 5^3
FactorP2(unit) ==
    IF unit.kind = "binary" THEN 10 * unit.power
    ELSE IF unit.kind = "decimal" THEN 3 * unit.power
    ELSE 0
FactorP5(unit) == IF unit.kind = "decimal" THEN 3 * unit.power ELSE 0

(***************************************************************************)
(* Token Normalizer: resolving a unit token to its catalog entry.           *)
(***************************************************************************)
\* every accepted spelling of a catalog unit, case folded: the full word
\* with "bytes"/"byte", the abbreviation with "B", and for a binary prefix
\* its abbreviation alone ("Ki") and its first letter alone ("K")
Spellings(unit) ==
    {makeSpec(unit.abbr, BYTES_SYMBOL, TRUE)}
    \cup {makeSpec(unit.prefix, BYTES_WORDS[w], TRUE) : w \in 1..Len(BYTES_WORDS)}
    \cup (IF unit.kind = "binary"
          THEN {lowerASCII(unit.abbr), lowerASCII(<<unit.abbr[1]>>)}
          ELSE {})

\* index in Catalog of the unit named by the token, 0 when no unit has that
\* spelling; an absent token means bytes
parseUnits(token) ==
    IF token = <<>> THEN 1
    ELSE IF \E u \in 1..Len(Catalog) : lowerASCII(token) \in Spellings(Catalog[u])
    THEN CHOOSE u \in 1..Len(Catalog) :
            /\ lowerASCII(token) \in Spellings(Catalog[u])
            /\ \A v \in 1..(u - 1) : lowerASCII(token) \notin Spellings(Catalog[v])
    ELSE 0

(***************************************************************************)
(* Spec Parser.                                                             *)
(***************************************************************************)
\* whether a character is of a class of characters
InClass(ch, class) == IF class = "digit" THEN IsDigit(ch) ELSE IsSpace(ch)

\* end of the longest run of characters of a class that starts at i
RunEnd(s, i, class) ==
    CHOOSE j \in i..(Len(s) + 1) :
        /\ \A k \in i..(j - 1) : InClass(s[k], class)
        /\ (j = Len(s) + 1 \/ ~InClass(s[j], class))

\* str.strip()
Strip(s) ==
    LET first == RunEnd(s, 1, "space")
        last == IF first > Len(s) THEN 0
                ELSE CHOOSE j \in first..Len(s) :
                        /\ ~IsSpace(s[j])
                        /\ \A k \in (j + 1)..Len(s) : IsSpace(s[k])
    IN SubSeq(s, first, last)

RECURSIVE DigitsToInt(_)
DigitsToInt(ds) ==
    IF ds = <<>> THEN 0
    ELSE 10 * DigitsToInt(SubSeq(ds, 1, Len(ds) - 1)) + DigitValue(ds[Len(ds)])

RECURSIVE IntToDigits(_)
\* "%ld" % n for n >= 0
IntToDigits(n) ==
    IF n < 10 THEN <<DigitChars[n + 1]>>
    ELSE IntToDigits(n \div 10) \o <<DigitChars[(n % 10) + 1]>>

RaiseValueError == [kind |-> "error", error |-> Fail]

\* SignEnd letting whitespace separate the sign from the digits
SignEndSpaces(t) ==
    IF Len(t) >= 1 /\ IsSignChar(t[1]) THEN RunEnd(t, 2, "space") ELSE 1

\* where the digits start: after the optional sign
SignEnd(t) == IF Len(t) >= 1 /\ IsSignChar(t[1]) THEN 2 ELSE 1

\* where the mantissa ends, its integer digits ending before i2: after the
\* radix point and the digits that follow it, if there is a radix point
RadixEnd(t, i2) ==
    IF i2 <= Len(t) /\ t[i2] = "." THEN RunEnd(t, i2 + 1, "digit") ELSE i2

\* where the digits of an exponent whose marker is at i3 start
ExpDigits(t, i3) ==
    IF i3 + 1 <= Len(t) /\ IsSignChar(t[i3 + 1]) THEN i3 + 2 ELSE i3 + 1

\* where the exponent ends: i3 when no complete exponent starts at i3
ExpEnd(t, i3) ==
    IF i3 <= Len(t) /\ IsExpMark(t[i3])
       /\ RunEnd(t, ExpDigits(t, i3), "digit") > ExpDigits(t, i3)
    THEN RunEnd(t, ExpDigits(t, i3), "digit")
    ELSE i3

\* the value of the exponent that spans i3..i4-1 (0 when there is none)
ExpValue(t, i3, i4) ==
    IF i4 = i3 THEN 0
    ELSE IF t[i3 + 1] = "-"
    THEN 0 - DigitsToInt(SubSeq(t, ExpDigits(t, i3), i4 - 1))
    ELSE DigitsToInt(SubSeq(t, ExpDigits(t, i3), i4 - 1))

\* the decimal value of the pieces: sign, digits before and after the radix
\* point, exponent and unit factor
SpecValue(negative, intDigits, fracDigits, exponent, unit) ==
    DecNorm((IF negative THEN 0 - 1 ELSE 1) * DigitsToInt(intDigits \o fracDigits),
            exponent - Len(fracDigits) + FactorP2(unit),
            exponent - Len(fracDigits) + FactorP5(unit))

\* the rest of the parse once the numeric literal is delimited: sign up to
\* i1, integer digits up to i2, fraction up to i3, exponent up to i4
ParseRest(t, i1, i2, i3, i4) ==
    LET token == SubSeq(t, RunEnd(t, i4, "space"), Len(t))
        intDigits == SubSeq(t, i1, i2 - 1)
        fracDigits == SubSeq(t, i2 + 1, i3 - 1)
    IN  IF Len(intDigits) + Len(fracDigits) = 0 THEN RaiseValueError
        ELSE IF \E k \in 1..Len(token) : IsSpace(token[k]) THEN RaiseValueError
        ELSE IF parseUnits(token) = 0 THEN RaiseValueError
        ELSE [kind |-> "Decimal",
              value |-> SpecValue(t[1] = "-", intDigits, fracDigits,
                                  ExpValue(t, i3, i4),
                                  Catalog[parseUnits(token)])]

ParseExponent(t, i1, i2, i3) == ParseRest(t, i1, i2, i3, ExpEnd(t, i3))

ParseFraction(t, i1, i2) == ParseExponent(t, i1, i2, RadixEnd(t, i2))

ParseDigits(t, i1) == ParseFraction(t, i1, RunEnd(t, i1, "digit"))

\* size.parseSpec: the exact decimal number of bytes a spec string stands
\* for, or a ValueError
parseSpec(spec) == ParseDigits(Strip(spec), SignEnd(Strip(spec)))

\* DecTrunc rounding half up instead of dropping the partial byte
DecRoundHalfUp(d) ==
    IF DecIsIntegral(d) THEN d
    ELSE DecFromInt(Sign(d.c) * ((2 * DecNum(d) + DecDen(d)) \div (2 * DecDen(d))))

(***************************************************************************)
(* Quantity Value.                                                          *)
(***************************************************************************)
\* Decimal.to_integral_value(rounding=ROUND_DOWN): drop any partial byte
DecTrunc(d) ==
    IF DecIsIntegral(d) THEN d
    ELSE DecFromInt(Sign(d.c) * (DecNum(d) \div DecDen(d)))

\* Size(spec) for a spec string
SizeFromSpec(spec) ==
    LET parsed == parseSpec(spec)
    IN  IF parsed.kind = "error" THEN parsed
        ELSE [kind |-> "Size", value |-> DecTrunc(parsed.value)]

\* Size(n) for a plain integer n
SizeFromInt(n) == [kind |-> "Size", value |-> DecFromInt(n)]

\* Size.convertTo: exact division of the byte value by the unit's factor
convertTo(size, unit) ==
    [kind |-> "Decimal",
     value |-> DecScale(size.value, 0 - FactorP2(unit), 0 - FactorP5(unit))]

\* the whole number of bytes a Size holds, as a plain integer
Bytes(size) == Sign(size.value.c) * DecNum(size.value)

ROUND_HALF_UP == "ROUND_HALF_UP"
ROUND_DOWN == "ROUND_DOWN"
ROUND_UP == "ROUND_UP"

\* ROUND_DEFAULT set to truncation
ROUND_DEFAULT_DOWN == ROUND_DOWN

\* ROUND_DEFAULT set to a rounding mode of decimal that Size does not offer
ROUND_DEFAULT_HALF_DOWN == "ROUND_HALF_DOWN"

ROUND_DEFAULT == ROUND_HALF_UP

\* Decimal.quantize(Decimal(1), rounding) of num / den, for den > 0
Quantize(num, den, rounding) ==
    LET q == Abs(num) \div den
        r == Abs(num) % den
        up == IF rounding = ROUND_UP THEN r > 0
              ELSE IF rounding = ROUND_HALF_UP THEN 2 * r >= den
              ELSE FALSE
    IN  Sign(num) * (IF up THEN q + 1 ELSE q)

\* Size.roundToNearest(unit, rounding); the granularity is the number of
\* bytes of a unit's factor or of a Size
roundToNearest(size, granularity, rounding) ==
    IF rounding \notin {ROUND_UP, ROUND_DOWN, ROUND_DEFAULT} THEN RaiseValueError
    ELSE IF granularity < 0 THEN RaiseValueError
    ELSE IF granularity = 0 THEN SizeFromInt(0)
    ELSE SizeFromInt(Quantize(Bytes(size), granularity, rounding) * granularity)

\* The arithmetic operators Size defines itself return a Size; every other
\* operator is inherited from Decimal and returns a plain Decimal.  A
\* binary operation runs the left operand's method when the left operand
\* is a Size, and the right operand's reflected method otherwise.
\* SizeOperators with multiplication left to Decimal
SizeOperatorsNoMul == {"+", "-", "/", "//", "%"}

SizeOperators == {"+", "-", "*", "/", "//", "%"}
SizeReflectedOperators == {"+", "*"}

ArithKind(operator, left, right) ==
    IF left = "Size"
    THEN IF operator \in SizeOperators THEN "Size" ELSE "Decimal"
    ELSE IF right = "Size"
    THEN IF operator \in SizeReflectedOperators THEN "Size" ELSE "Decimal"
    ELSE "Number"

(***************************************************************************)
(* Human-Readable Formatter: choice of the display unit.                    *)
(***************************************************************************)
\* a >= b for exact decimals a, b > 0 whose coefficients, once the powers
\* of 5 are levelled, stay below 2^15
DecGeq(a, b) ==
    LET dx == a.p2 - b.p2
        dy == a.p5 - b.p5
        na == a.c * Pow(5, Pos(dy))
        nb == b.c * Pow(5, Pos(0 - dy))
    IN  IF dx >= 0
        THEN IF dx > 15 THEN TRUE ELSE na * Pow(2, dx) >= nb
        ELSE IF 0 - dx > 15 THEN FALSE ELSE na >= nb * Pow(2, 0 - dx)

DecAbs(d) == [d EXCEPT !.c = Abs(d.c)]

RECURSIVE ScanUnitsFromOne(_, _, _)
\* ScanUnits taking the first prefix in which the magnitude reaches 1,
\* whatever min_value is
ScanUnitsFromOne(size, min_value, k) ==
    IF k = 0 THEN 0
    ELSE IF size.value.c # 0
            /\ DecGeq(DecAbs(convertTo(size, BINARY_PREFIXES[k]).value),
                      DecFromInt(1))
    THEN k
    ELSE ScanUnitsFromOne(size, min_value, k - 1)

RECURSIVE ScanUnits(_, _, _)
\* scan the binary prefixes from the one of rank k down to the smallest:
\* the first in which the magnitude reaches min_value, else plain bytes (0)
ScanUnits(size, min_value, k) ==
    IF k = 0 THEN 0
    ELSE IF size.value.c # 0
            /\ DecGeq(DecAbs(convertTo(size, BINARY_PREFIXES[k]).value), min_value)
    THEN k
    ELSE ScanUnits(size, min_value, k - 1)

\* the unit humanReadable(min_value=...) displays the size in: 0 for plain
\* bytes, k for BINARY_PREFIXES[k]
humanReadableUnit(size, min_value) ==
    ScanUnits(size, min_value, Len(BINARY_PREFIXES))

(***************************************************************************)
(* The expectations of tests/size_test.py about parseSpec: the spec         *)
(* string, whether ValueError is raised, and the Decimal returned.          *)
(***************************************************************************)
ParseSpecTests == {
    [spec |-> <<"1", "e", "+", "0", " ", "K", "i", "B">>, raises |-> FALSE, value |-> DecNorm(1024, 0, 0)],
    [spec |-> <<"1", "e", "-", "0", " ", "K", "i", "B">>, raises |-> FALSE, value |-> DecNorm(1024, 0, 0)],
    [spec |-> <<"1", "e", "-", "1", " ", "K", "B">>, raises |-> FALSE, value |-> DecNorm(100, 0, 0)],
    [spec |-> <<"1", "E", "-", "4", "K", "B">>, raises |-> FALSE, value |-> DecNorm(1, -1, -1)],
    [spec |-> <<"e", "+", "0">>, raises |-> TRUE, value |-> DecNorm(0, 0, 0)],
    [spec |-> <<"1", ".", "5", "e", "+", "0", " ", "K", "i", "B">>, raises |-> FALSE, value |-> DecNorm(1536, 0, 0)],
    [spec |-> <<"0", ".", "0">>, raises |-> FALSE, value |-> DecNorm(0, 0, 0)],
    [spec |-> <<"0", ".", "9", " ", "K", "i", "B">>, raises |-> FALSE, value |-> DecNorm(9216, -1, -1)],
    [spec |-> <<"1", ".", "5", " ", "K", "i", "B">>, raises |-> FALSE, value |-> DecNorm(1536, 0, 0)],
    [spec |-> <<"0", ".", "5", " ", "K", "i", "B">>, raises |-> FALSE, value |-> DecNorm(512, 0, 0)],
    [spec |-> <<".", "5", " ", "K", "i", "B">>, raises |-> FALSE, value |-> DecNorm(512, 0, 0)],
    [spec |-> <<"1", ".", " ", "K", "i", "B">>, raises |-> FALSE, value |-> DecNorm(1024, 0, 0)],
    [spec |-> <<"-", "1", ".", " ", "K", "i", "B">>, raises |-> FALSE, value |-> DecNorm(-1024, 0, 0)],
    [spec |-> <<"+", "1", ".", " ", "K", "i", "B">>, raises |-> FALSE, value |-> DecNorm(1024, 0, 0)],
    [spec |-> <<"+", "1", ".", "0", "0", "0", "0", "0", "0", "0", "e", "+", "0", " ", "K", "i", "B">>, raises |-> FALSE, value |-> DecNorm(1024, 0, 0)],
    [spec |-> <<"+", ".", "5", " ", "K", "i", "B">>, raises |-> FALSE, value |-> DecNorm(512, 0, 0)],
    [spec |-> <<"+", " ", "1", " ", "K", "i", "B">>, raises |-> TRUE, value |-> DecNorm(0, 0, 0)],
    [spec |-> <<"-", " ", "1", " ", "K", "i", "B">>, raises |-> TRUE, value |-> DecNorm(0, 0, 0)],
    [spec |-> <<".", " ", "K", "i", "B">>, raises |-> TRUE, value |-> DecNorm(0, 0, 0)],
    [spec |-> <<"1", ".", "0", "e", "+", " ", "K", "i", "B">>, raises |-> TRUE, value |-> DecNorm(0, 0, 0)],
    [spec |-> <<"1", ".", "0", ".", "0">>, raises |-> TRUE, value |-> DecNorm(0, 0, 0)],
    [spec |-> <<"1", " ", "K", "i", "B", " ">>, raises |-> FALSE, value |-> DecNorm(1024, 0, 0)],
    [spec |-> <<" ", "1", " ", "K", "i", "B">>, raises |-> FALSE, value |-> DecNorm(1024, 0, 0)],
    [spec |-> <<" ", "1", "K", "i", "B">>, raises |-> FALSE, value |-> DecNorm(1024, 0, 0)],
    [spec |-> <<" ", "1", "e", "+", "0", "K", "i", "B">>, raises |-> FALSE, value |-> DecNorm(1024, 0, 0)],
    [spec |-> <<"1", " ", "K", "i", "B", " ", "j", "u", "s", "t", " ", "a", " ", "l", "o", "t", " ", "o", "f", " ", "s", "t", "r", "a", "y", " ", "c", "h", "a", "r", "a", "c", "t", "e", "r", "s">>, raises |-> TRUE, value |-> DecNorm(0, 0, 0)],
    [spec |-> <<"j", "u", "s", "t", " ", "1", " ", "K", "i", "B">>, raises |-> TRUE, value |-> DecNorm(0, 0, 0)],
    [spec |-> <<"0", "0", "1", " ", "K", "i", "B">>, raises |-> FALSE, value |-> DecNorm(1024, 0, 0)],
    [spec |-> <<"1", "e", "+", "0", "1">>, raises |-> FALSE, value |-> DecNorm(10, 0, 0)],
    [spec |-> <<"1", " ", "k", "i", "b", "i", "b", "y", "t", "e", "s">>, raises |-> FALSE, value |-> DecNorm(1024, 0, 0)],
    [spec |-> <<"2", " ", "k", "i", "b", "i", "b", "y", "t", "e">>, raises |-> FALSE, value |-> DecNorm(2048, 0, 0)],
    [spec |-> <<"2", " ", "k", "i", "l", "o", "b", "y", "t", "e">>, raises |-> FALSE, value |-> DecNorm(2000, 0, 0)],
    [spec |-> <<"2", " ", "k", "i", "l", "o", "b", "y", "t", "e", "s">>, raises |-> FALSE, value |-> DecNorm(2000, 0, 0)],
    [spec |-> <<"2", " ", "K", "B">>, raises |-> FALSE, value |-> DecNorm(2000, 0, 0)],
    [spec |-> <<"2", " ", "K">>, raises |-> FALSE, value |-> DecNorm(2048, 0, 0)],
    [spec |-> <<"2", " ", "k">>, raises |-> FALSE, value |-> DecNorm(2048, 0, 0)],
    [spec |-> <<"2", " ", "K", "i">>, raises |-> FALSE, value |-> DecNorm(2048, 0, 0)],
    [spec |-> <<"2", " ", "g">>, raises |-> FALSE, value |-> DecNorm(2, 30, 0)],
    [spec |-> <<"2", " ", "G">>, raises |-> FALSE, value |-> DecNorm(2, 30, 0)],
    [spec |-> <<"K", "i">>, raises |-> TRUE, value |-> DecNorm(0, 0, 0)]
}

(***************************************************************************)
(* The system's mount state, and the two files that show it.                *)
(* Device names, mount points and filesystem types are atoms; the root of   *)
(* a mount within its filesystem is a sequence of characters, because the   *)
(* cache slices it.                                                         *)
(***************************************************************************)
Mount(devspec, mountpoint, fstype, root) ==
    [devspec |-> devspec, mountpoint |-> mountpoint, fstype |-> fstype,
     root |-> root, fields |-> 6, separator |-> TRUE]

\* a mount whose line of /proc/mounts ends after the filesystem type
CutMount(devspec, mountpoint, fstype, root) ==
    [Mount(devspec, mountpoint, fstype, root) EXCEPT !.fields = 3]

\* a mount whose line of /proc/self/mountinfo lacks the "-" separator
NoSeparatorMount(devspec, mountpoint, fstype, root) ==
    [Mount(devspec, mountpoint, fstype, root) EXCEPT !.separator = FALSE]

RootDir == <<"/">>
SubvolRoot == <<"/", "s", "v">>

NothingMounted == <<>>
BtrfsSubvolAndExt4 ==
    << Mount("/dev/d1", "/a", "btrfs", SubvolRoot),
       CutMount("/dev/d2", "/c", "ext4", RootDir),
       Mount("/dev/d2", "/b", "ext4", RootDir) >>
BtrfsMainVolume ==
    << Mount("/dev/d1", "/a", "btrfs", RootDir),
       Mount("/dev/d1", "/b", "btrfs", RootDir) >>
\* /dev/d2 mounted on two mount points, on one of them twice
TwoExt4 ==
    << Mount("/dev/d2", "/b", "ext4", RootDir),
       Mount("/dev/d2", "/a", "ext4", RootDir),
       Mount("/dev/d2", "/b", "ext4", RootDir) >>

\* the mount states the system moves between
ProcStates == {NothingMounted, BtrfsSubvolAndExt4, BtrfsMainVolume, TwoExt4}

\* one line of /proc/mounts, as its whitespace-separated fields
ProcMountsLine(m) ==
    SubSeq(<<m.devspec, m.mountpoint, m.fstype, "rw", "0", "0">>, 1, m.fields)

\* the content of /proc/mounts in a mount state
ProcMounts(state) == [i \in 1..Len(state) |-> ProcMountsLine(state[i])]

\* one line of /proc/self/mountinfo, as its fields
ProcMountinfoLine(m) ==
    <<"36", "35", "0:30", m.root, m.mountpoint, "rw", "shared:1">> \o
    (IF m.separator THEN <<"-">> ELSE <<>>) \o <<m.fstype, m.devspec, "rw">>

\* the content of /proc/self/mountinfo in a mount state
ProcMountinfo(state) == [i \in 1..Len(state) |-> ProcMountinfoLine(state[i])]

\* util.md5_file: a digest of the file's content; distinct contents are
\* taken to have distinct digests
md5_file(content) == [type |-> "str", digest |-> content]

\* the integer 0 that MountsCache.__init__ stores as the hash
InitialHash == [type |-> "int", digest |-> <<>>]

\* python's None as a dictionary key component or a cache value
NoneKey == <<"None">>

\* defaultdict(list)
EmptyDict == [k \in {} |-> <<>>]

\* value of a defaultdict(list) at a key
DictGet(dict, key) == IF key \in DOMAIN dict THEN dict[key] ELSE <<>>

\* dict[key].append(item) on a defaultdict(list)
DictAppend(dict, key, item) ==
    [k \in DOMAIN dict \cup {key} |->
        IF k = key THEN Append(DictGet(dict, key), item) ELSE dict[k]]

\* reading dict[key] on a defaultdict(list) stores an empty list under a
\* key that is missing
DictTouch(dict, key) ==
    [k \in DOMAIN dict \cup {key} |-> DictGet(dict, k)]

\* fstype.startswith("btrfs")
StartsWithBtrfs(fstype) == fstype = "btrfs"

\* list.index: position (from 0) of the first field equal to item, or -1
FieldIndex(fields, item) ==
    IF \E i \in 1..Len(fields) : fields[i] = item
    THEN (CHOOSE i \in 1..Len(fields) :
            /\ fields[i] = item
            /\ \A j \in 1..(i - 1) : fields[j] # item) - 1
    ELSE 0 - 1

RECURSIVE MountinfoGetCache(_, _)
\* _MountinfoCache._getCache: the table (devspec, mountpoint) -> root of the
\* btrfs lines of mountinfo, later lines overwriting earlier ones
MountinfoGetCache(lines, cache) ==
    IF lines = <<>> THEN cache
    ELSE LET fields == Head(lines)
             separator_index == FieldIndex(fields, "-")
             fstype == fields[separator_index + 2]
             root == fields[4]
             mountpoint == fields[5]
             devspec == fields[separator_index + 3]
             key == <<devspec, mountpoint>>
         IN  IF ~StartsWithBtrfs(fstype)
             THEN MountinfoGetCache(Tail(lines), cache)
             ELSE MountinfoGetCache(Tail(lines),
                    [k \in DOMAIN cache \cup {key} |->
                        IF k = key THEN root ELSE cache[k]])

\* _MountinfoCache.getRoot on a filled cache: the root, or None
MountinfoGetRoot(cache, devspec, mountpoint) ==
    IF <<devspec, mountpoint>> \in DOMAIN cache
    THEN cache[<<devspec, mountpoint>>]
    ELSE NoneKey

MAIN_VOLUME_ID == 5

\* str(n) for a one-digit number
Str(n) == <<DigitChars[n + 1]>>

\* SubvolSpec keeping the leading slash of the root
SubvolSpecWithSlash(root) ==
    IF Tail(root) # <<>> THEN root ELSE Str(MAIN_VOLUME_ID)

\* root[1:] or str(btrfs.MAIN_VOLUME_ID)
SubvolSpec(root) == IF Tail(root) # <<>> THEN Tail(root) ELSE Str(MAIN_VOLUME_ID)

\* the body of the loop of _getActiveMounts for one line of /proc/mounts,
\* given the filled mountinfo cache: the new value of self.mountpoints
ActiveMountsLine(table, fields, cache) ==
    IF Len(fields) < 4 THEN table
    ELSE LET devspec == fields[1]
             mountpoint == fields[2]
             fstype == fields[3]
             root == MountinfoGetRoot(cache, devspec, mountpoint)
         IN  IF fstype = "btrfs"
             THEN IF root # NoneKey
                  THEN DictAppend(table, <<devspec, SubvolSpec(root)>>, mountpoint)
                  ELSE table
             ELSE DictAppend(table, <<devspec, NoneKey>>, mountpoint)

(***************************************************************************)
(* MountsCache as a state machine.  A caller's query runs in steps, one     *)
(* per access to the file system or to the shared cache object; the mount   *)
(* state of the system may change between any two steps.                    *)
(***************************************************************************)
Callers == {1, 2}

NoSubvol == [type |-> "None", v |-> <<>>]
StrSubvol(name) == [type |-> "str", v |-> name]
IntSubvol(n) == [type |-> "int", v |-> Str(n)]

GetMountpointsQuery(devspec, subvolspec) ==
    [name |-> "getMountpoints", devspec |-> devspec, subvolspec |-> subvolspec,
     path |-> ""]
IsMountpointQuery(path) ==
    [name |-> "isMountpoint", devspec |-> "", subvolspec |-> NoSubvol,
     path |-> path]
NoQuery == [name |-> "none", devspec |-> "", subvolspec |-> NoSubvol, path |-> ""]

\* the queries a single caller makes
DevSpecs == {"/dev/d1", "/dev/d2"}
SubvolSpecs == {NoSubvol, StrSubvol(<<"s", "v">>), IntSubvol(MAIN_VOLUME_ID)}
Paths == {"/a", "/b"}
Queries ==
    {GetMountpointsQuery(d, sv) : d \in DevSpecs, sv \in SubvolSpecs}
    \cup {IsMountpointQuery(path) : path \in Paths}

\* the queries two callers sharing the cache make
SharedQueries ==
    {GetMountpointsQuery("/dev/d2", NoSubvol), IsMountpointQuery("/a")}

NoResult == [kind |-> "none", value |-> <<>>]
NoLines == <<>>
NoMountinfo == [loaded |-> FALSE, cache |-> EmptyDict]

\* the key getMountpoints looks up: subvolspec turned into a string unless
\* it is None
QueryKey(q) ==
    <<q.devspec, IF q.subvolspec.type = "None" THEN NoneKey ELSE q.subvolspec.v>>

\* any(path in p for p in self.mountpoints.values())
AnyMountpoint(table, path) ==
    \E k \in DOMAIN table : \E i \in 1..Len(table[k]) : table[k][i] = path

\* what a query returns from the table
QueryResult(table, q) ==
    IF q.name = "getMountpoints"
    THEN [kind |-> "list", value |-> DictGet(table, QueryKey(q))]
    ELSE [kind |-> "bool", value |-> AnyMountpoint(table, q.path)]

\* self.mountpoints after a query returned from it
QueryTouch(table, q) ==
    IF q.name = "getMountpoints" THEN DictTouch(table, QueryKey(q)) ELSE table

\* with the external lock a query starts only when no other is in progress
MayStart(c) ==
    /\ pc[c] = "idle"
    /\ calls < MaxCalls
    /\ locked => \A o \in Callers : pc[o] = "idle"

\* the entry of a query and the first statement of _cacheCheck:
\* md5hash = util.md5_file("/proc/mounts")
StartQuery(c, q) ==
    /\ MayStart(c)
    /\ query' = [query EXCEPT ![c] = q]
    /\ md5hash' = [md5hash EXCEPT ![c] = md5_file(ProcMounts(procState))]
    /\ result' = [result EXCEPT ![c] = NoResult]
    /\ pc' = [pc EXCEPT ![c] = "check"]
    /\ calls' = calls + 1
    /\ UNCHANGED <<op, args, ret, procState, history, changes, mountsHash,
                   mountpoints, mounts, lineno, mountinfo, locked>>

\* getMountpoints(devspec, subvolspec) called by c, for a query of the set
getMountpoints(c, queries) ==
    \E q \in queries :
        /\ q.name = "getMountpoints"
        /\ StartQuery(c, q)

\* isMountpoint(path) called by c, for a query of the set
isMountpoint(c, queries) ==
    \E q \in queries :
        /\ q.name = "isMountpoint"
        /\ StartQuery(c, q)

\* HashChanged with the comparison dropped: every query refreshes
HashChangedAlways(hash, stored) == hash = hash \/ stored = stored

\* whether _cacheCheck refreshes the table
HashChanged(hash, stored) == hash # stored

\* _cacheCheck after the hash was computed: compare it with the stored
\* hash and, if they differ, store it before the table is rebuilt
cacheCheck(c) ==
    /\ pc[c] = "check"
    /\ IF HashChanged(md5hash[c], mountsHash)
       THEN /\ mountsHash' = md5hash[c]
            /\ pc' = [pc EXCEPT ![c] = "open"]
       ELSE /\ mountsHash' = mountsHash
            /\ pc' = [pc EXCEPT ![c] = "lookup"]
    /\ UNCHANGED <<op, args, ret, procState, history, changes, mountpoints,
                   query, md5hash, mounts, lineno, mountinfo, result, calls,
                   locked>>

\* where _getActiveMounts continues once n - 1 of the lines are processed
AfterLine(lines, n) == IF n > Len(lines) THEN "lookup" ELSE "lines"

\* getActiveMountsOpen without the statement that empties the table
getActiveMountsOpenKeeping(c) ==
    /\ pc[c] = "open"
    /\ mountpoints' = mountpoints
    /\ mountinfo' = [mountinfo EXCEPT ![c] = NoMountinfo]
    /\ mounts' = [mounts EXCEPT ![c] = ProcMounts(procState)]
    /\ lineno' = [lineno EXCEPT ![c] = 1]
    /\ pc' = [pc EXCEPT ![c] = AfterLine(ProcMounts(procState), 1)]
    /\ UNCHANGED <<op, args, ret, procState, history, changes, mountsHash,
                   query, md5hash, result, calls, locked>>

\* _getActiveMounts up to the opening of /proc/mounts: the table is emptied,
\* a fresh _MountinfoCache is made and the lines of the file are read
getActiveMountsOpen(c) ==
    /\ pc[c] = "open"
    /\ mountpoints' = EmptyDict
    /\ mountinfo' = [mountinfo EXCEPT ![c] = NoMountinfo]
    /\ mounts' = [mounts EXCEPT ![c] = ProcMounts(procState)]
    /\ lineno' = [lineno EXCEPT ![c] = 1]
    /\ pc' = [pc EXCEPT ![c] = AfterLine(ProcMounts(procState), 1)]
    /\ UNCHANGED <<op, args, ret, procState, history, changes, mountsHash,
                   query, md5hash, result, calls, locked>>

\* whether the line makes getRoot read /proc/self/mountinfo: the first btrfs
\* line of a rebuild does
NeedsMountinfo(fields, info) ==
    Len(fields) >= 4 /\ fields[3] = "btrfs" /\ ~info.loaded

\* whether _getCache raises ValueError on the lines of mountinfo:
\* fields.index("-") finds no separator in one of them
MountinfoRaises(lines) ==
    \E i \in 1..Len(lines) : FieldIndex(lines[i], "-") < 0

\* the mountinfo cache a line needs: getRoot reads /proc/self/mountinfo the
\* first time a btrfs line asks for a root
MountinfoFor(fields, info, state) ==
    IF NeedsMountinfo(fields, info)
    THEN [loaded |-> TRUE,
          cache |-> MountinfoGetCache(ProcMountinfo(state), EmptyDict)]
    ELSE info

\* one turn of the loop of _getActiveMounts
getActiveMountsLine(c) ==
    /\ pc[c] = "lines"
    /\ NeedsMountinfo(mounts[c][lineno[c]], mountinfo[c]) =>
        ~MountinfoRaises(ProcMountinfo(procState))
    /\ LET fields == mounts[c][lineno[c]]
           info == MountinfoFor(fields, mountinfo[c], procState)
       IN  /\ mountinfo' = [mountinfo EXCEPT ![c] = info]
           /\ mountpoints' = ActiveMountsLine(mountpoints, fields, info.cache)
    /\ lineno' = [lineno EXCEPT ![c] = lineno[c] + 1]
    /\ pc' = [pc EXCEPT ![c] = AfterLine(mounts[c], lineno[c] + 1)]
    /\ UNCHANGED <<op, args, ret, procState, history, changes, mountsHash,
                   query, md5hash, mounts, result, calls, locked>>

\* the return statement of getMountpoints or isMountpoint
queryReturn(c) ==
    /\ pc[c] = "lookup"
    /\ result' = [result EXCEPT ![c] = QueryResult(mountpoints, query[c])]
    /\ mountpoints' = QueryTouch(mountpoints, query[c])
    /\ pc' = [pc EXCEPT ![c] = "idle"]
    /\ md5hash' = [md5hash EXCEPT ![c] = InitialHash]
    /\ mounts' = [mounts EXCEPT ![c] = NoLines]
    /\ lineno' = [lineno EXCEPT ![c] = 0]
    /\ mountinfo' = [mountinfo EXCEPT ![c] = NoMountinfo]
    /\ UNCHANGED <<op, args, ret, procState, history, changes, mountsHash,
                   query, calls, locked>>

\* what a caller holds once its query has raised an exception
Raised(error) == [kind |-> "raised", value |-> <<error>>]

\* an exception leaves the query: the caller is idle again, its locals gone
QueryRaises(c, error) ==
    /\ result' = [result EXCEPT ![c] = Raised(error)]
    /\ pc' = [pc EXCEPT ![c] = "idle"]
    /\ md5hash' = [md5hash EXCEPT ![c] = InitialHash]
    /\ mounts' = [mounts EXCEPT ![c] = NoLines]
    /\ lineno' = [lineno EXCEPT ![c] = 0]
    /\ mountinfo' = [mountinfo EXCEPT ![c] = NoMountinfo]
    /\ UNCHANGED <<op, args, ret, procState, history, changes, mountsHash,
                   query, calls, locked>>

\* _getActiveMounts when open("/proc/mounts") fails: the table has been
\* emptied, nothing is read, the IOError leaves the query
getActiveMountsOpenFails(c) ==
    /\ pc[c] = "open"
    /\ mountpoints' = EmptyDict
    /\ QueryRaises(c, "IOError")

\* getRoot when open("/proc/self/mountinfo") fails in _getCache: the
\* IOError leaves the query, the table holding the lines appended so far
getCacheOpenFails(c) ==
    /\ pc[c] = "lines"
    /\ NeedsMountinfo(mounts[c][lineno[c]], mountinfo[c])
    /\ mountpoints' = mountpoints
    /\ QueryRaises(c, "IOError")

\* getRoot when a line of mountinfo has no "-" field: fields.index raises
\* ValueError in _getCache, which leaves the query
getCacheIndexFails(c) ==
    /\ pc[c] = "lines"
    /\ NeedsMountinfo(mounts[c][lineno[c]], mountinfo[c])
    /\ MountinfoRaises(ProcMountinfo(procState))
    /\ mountpoints' = mountpoints
    /\ QueryRaises(c, "ValueError")

\* the system mounts or unmounts something
procChange ==
    /\ changes < MaxChanges
    /\ \E state \in ProcStates \ {procState} :
        /\ procState' = state
        /\ history' = history \cup {state}
    /\ changes' = changes + 1
    /\ UNCHANGED <<op, args, ret, mountsHash, mountpoints, pc, query, md5hash,
                   mounts, lineno, mountinfo, result, calls, locked>>

Pending == [kind |-> "pending"]
NoArgs == [none |-> TRUE]

\* MountsCache.__init__, with no query in progress
CacheInit ==
    /\ mountsHash = InitialHash
    /\ mountpoints = EmptyDict
    /\ pc = [c \in Callers |-> "idle"]
    /\ query = [c \in Callers |-> NoQuery]
    /\ md5hash = [c \in Callers |-> InitialHash]
    /\ mounts = [c \in Callers |-> NoLines]
    /\ lineno = [c \in Callers |-> 0]
    /\ mountinfo = [c \in Callers |-> NoMountinfo]
    /\ result = [c \in Callers |-> NoResult]
    /\ calls = 0

SizeIdle == op = "none" /\ args = NoArgs /\ ret = Pending

\* one caller
Init ==
    /\ SizeIdle
    /\ procState \in ProcStates
    /\ history = {procState}
    /\ changes = 0
    /\ CacheInit
    /\ locked = FALSE

Step(c, queries) ==
    \/ getMountpoints(c, queries)
    \/ isMountpoint(c, queries)
    \/ cacheCheck(c)
    \/ getActiveMountsOpen(c)
    \/ getActiveMountsLine(c)
    \/ queryReturn(c)

Next == procChange \/ Step(1, Queries)

Spec == Init /\ [][Next]_vars

\* an ext4 mount and a btrfs mount whose line of mountinfo has no separator
NoSeparator ==
    << Mount("/dev/d2", "/b", "ext4", RootDir),
       NoSeparatorMount("/dev/d1", "/a", "btrfs", RootDir) >>

\* the mount states a caller that meets read errors starts in
FailingStates == {NoSeparator, BtrfsSubvolAndExt4, TwoExt4}

\* one caller, the files of /proc failing to open or to parse at times
InitFailing ==
    /\ SizeIdle
    /\ procState \in FailingStates
    /\ history = {procState}
    /\ changes = 0
    /\ CacheInit
    /\ locked = FALSE

NextFailing ==
    \/ procChange
    \/ Step(1, Queries)
    \/ getActiveMountsOpenFails(1)
    \/ getCacheOpenFails(1)
    \/ getCacheIndexFails(1)

SpecFailing == InitFailing /\ [][NextFailing]_vars

\* two callers sharing the cache, with or without an external lock
InitConcurrent ==
    /\ SizeIdle
    /\ procState = TwoExt4
    /\ history = {procState}
    /\ changes = 0
    /\ CacheInit
    /\ locked \in BOOLEAN

NextConcurrent == procChange \/ \E c \in Callers : Step(c, SharedQueries)

SpecConcurrent == InitConcurrent /\ [][NextConcurrent]_vars

(***************************************************************************)
(* The Size subsystem as a state machine: a call is chosen with its         *)
(* arguments, and one step computes what it returns.                        *)
(***************************************************************************)
\* PrefixSpec with the bytes symbol left off the abbreviation
PrefixSpecNoSymbol(numunits, unit, form) ==
    IntToDigits(numunits) \o <<" ">> \o
    (IF form = "word" THEN makeSpec(unit.prefix, BYTES_WORDS[1], TRUE)
     ELSE makeSpec(unit.abbr, <<>>, TRUE))

\* the spec string _prefixTestHelper builds for numunits of a unit:
\* "%ld %s" with the unit's full word or its abbreviation
PrefixSpec(numunits, unit, form) ==
    IntToDigits(numunits) \o <<" ">> \o
    (IF form = "word" THEN makeSpec(unit.prefix, BYTES_WORDS[1], TRUE)
     ELSE makeSpec(unit.abbr, BYTES_SYMBOL, TRUE))

\* the number of units testPrefixes tries
numbytes == 47

\* the calls of _prefixTestHelper: every unit of the catalog, with the
\* number of units of the test and with every small one
PrefixTestArgs ==
    {[numunits |-> n, unit |-> u, form |-> f,
      spec |-> PrefixSpec(n, Catalog[u], f)] :
        n \in (1..MaxNumUnits) \cup {numbytes}, u \in 1..Len(Catalog),
        f \in {"word", "abbr"}}

\* the characters of the texts tried on the parser
Alphabet == {"1", ".", "+", "-", "e", " ", "K", "B"}
Texts == UNION {[1..n -> Alphabet] : n \in 0..MaxTextLen}
ParseSpecArgs ==
    {[spec |-> t] : t \in Texts} \cup {[spec |-> t.spec] : t \in ParseSpecTests}

\* the numeric literals tried on the Size constructor, by their parts
IntParts == {<<>>, <<"0">>, <<"1">>, <<"9">>, <<"1", "0", "2", "4">>}
FracParts == {<<>>, <<"0">>, <<"5">>, <<"6">>, <<"9">>, <<"2", "5">>, <<"0", "1">>}
ExpParts == {[text |-> <<>>, value |-> 0],
             [text |-> <<"e", "+", "0">>, value |-> 0],
             [text |-> <<"e", "-", "1">>, value |-> 0 - 1],
             [text |-> <<"E", "-", "4">>, value |-> 0 - 4],
             [text |-> <<"e", "1">>, value |-> 1]}
UnitParts == {[text |-> <<>>, unit |-> 1],
              [text |-> <<"B">>, unit |-> 1],
              [text |-> <<" ", "K", "i", "B">>, unit |-> 2],
              [text |-> <<"K", "B">>, unit |-> 10]}
Literals ==
    {[negative |-> ng, int |-> ip, radix |-> rx, frac |-> fp, exp |-> ep,
      unit |-> up] :
        ng \in BOOLEAN, ip \in IntParts, rx \in BOOLEAN, fp \in FracParts,
        ep \in ExpParts, up \in UnitParts}

\* the text of a literal
LiteralSpec(lit) ==
    (IF lit.negative THEN <<"-">> ELSE <<>>) \o lit.int \o
    (IF lit.radix THEN <<".">> \o lit.frac ELSE <<>>) \o lit.exp.text \o
    lit.unit.text

SizeArgs ==
    {[spec |-> LiteralSpec(lit), literal |-> lit] :
        lit \in {l \in Literals :
                    /\ l.radix \/ l.frac = <<>>
                    /\ Len(l.int) + Len(l.frac) > 0}}

\* the rounding argument of a call: left out, a mode of size, ROUND_HALF_DOWN
\* of decimal, or an arbitrary string
RoundingOmitted == "omitted"
RoundingModes ==
    {RoundingOmitted, ROUND_HALF_UP, ROUND_DOWN, ROUND_UP, "ROUND_HALF_DOWN", "abc"}
RoundArgs ==
    {[bytes |-> v, granularity |-> g, rounding |-> r] :
        v \in ((0 - 3)..MaxBytes) \cup {1000, 1024, 1536, 2047},
        g \in ((0 - 1)..MaxGranularity) \cup {1000, 1024},
        r \in RoundingModes}

ArithOperators == {"+", "-", "*", "/", "//", "**", "%"}
ArithArgs ==
    {[operator |-> o, left |-> l, right |-> r] :
        o \in ArithOperators, l \in {"Size", "Number"}, r \in {"Size", "Number"}}

\* sizes coeff * 2^shift and the least displayed values tried on humanReadable
MaxCoeff == 12
MaxShift == 92
Coeffs == (0..MaxCoeff) \cup {1023, 1279, 1281}
\* min_value 0.1, 1 and 10, each with the number of tenths it is
MinValues == {[value |-> DecNorm(1, 0 - 1, 0 - 1), tenths |-> 1],
              [value |-> DecNorm(1, 0, 0), tenths |-> 10],
              [value |-> DecNorm(10, 0, 0), tenths |-> 100]}
HumanArgs ==
    {[size |-> [kind |-> "Size", value |-> DecNorm(sg * m, sh, 0)],
      min_value |-> mv.value, coeff |-> m, shift |-> sh, tenths |-> mv.tenths] :
        sg \in {0 - 1, 1}, m \in Coeffs, sh \in 0..MaxShift, mv \in MinValues}

SizeInit ==
    /\ \/ op = "prefixTest" /\ args \in PrefixTestArgs
       \/ op = "parseSpec" /\ args \in ParseSpecArgs
       \/ op = "Size" /\ args \in SizeArgs
       \/ op = "roundToNearest" /\ args \in RoundArgs
       \/ op = "arithmetic" /\ args \in ArithArgs
       \/ op = "humanReadable" /\ args \in HumanArgs
    /\ ret = Pending
    /\ procState = NothingMounted
    /\ history = {procState}
    /\ changes = 0
    /\ CacheInit
    /\ locked = FALSE

Returns(value) ==
    /\ ret = Pending
    /\ ret' = value
    /\ UNCHANGED <<op, args, procState, history, changes, mountsHash,
                   mountpoints, pc, query, md5hash, mounts, lineno, mountinfo,
                   result, calls, locked>>

\* s = Size("%ld %s" % (numunits, u))
PrefixConstruct ==
    /\ op = "prefixTest"
    /\ Returns(SizeFromSpec(args.spec))

\* s.convertTo(unit), on the Size just constructed
PrefixConvert ==
    /\ op = "prefixTest"
    /\ ret.kind = "Size"
    /\ ret' = [kind |-> "Decimal",
               value |-> convertTo(ret, Catalog[args.unit]).value,
               size |-> ret.value]
    /\ UNCHANGED <<op, args, procState, history, changes, mountsHash,
                   mountpoints, pc, query, md5hash, mounts, lineno, mountinfo,
                   result, calls, locked>>

ParseSpecCall == op = "parseSpec" /\ Returns(parseSpec(args.spec))

SizeCall == op = "Size" /\ Returns(SizeFromSpec(args.spec))

RoundToNearestCall ==
    /\ op = "roundToNearest"
    /\ Returns(roundToNearest(SizeFromInt(args.bytes), args.granularity,
                              IF args.rounding = RoundingOmitted
                              THEN ROUND_DEFAULT ELSE args.rounding))

ArithmeticCall ==
    /\ op = "arithmetic"
    /\ Returns([kind |-> ArithKind(args.operator, args.left, args.right)])

HumanReadableCall ==
    /\ op = "humanReadable"
    /\ Returns([kind |-> "unit",
                unit |-> humanReadableUnit(args.size, args.min_value)])

SizeNext ==
    \/ PrefixConstruct
    \/ PrefixConvert
    \/ ParseSpecCall
    \/ SizeCall
    \/ RoundToNearestCall
    \/ ArithmeticCall
    \/ HumanReadableCall

SpecSize == SizeInit /\ [][SizeNext]_vars

(***************************************************************************)
(* Properties.                                                              *)
(***************************************************************************)
\* numunits * unit.factor, as an exact decimal
UnitsTimesFactor(numunits, unit) ==
    DecNorm(numunits, FactorP2(unit), FactorP5(unit))

\* C1: unit round trip.  For every catalog unit U and every positive n, the
\* Size built from "n <full word of U>" and from "n <abbreviation of U>"
\* equals n * U.factor bytes, and convertTo(U) on it returns exactly n.
C1_UnitRoundTrip ==
    (op = "prefixTest" /\ ret.kind # "pending") =>
        /\ ret.kind \in {"Size", "Decimal"}
        /\ ret.kind = "Size" =>
            ret.value = UnitsTimesFactor(args.numunits, Catalog[args.unit])
        /\ ret.kind = "Decimal" =>
            /\ ret.size = UnitsTimesFactor(args.numunits, Catalog[args.unit])
            /\ ret.value = DecFromInt(args.numunits)

\* the abbreviation of the largest decimal prefix has made the round trip
C1_Witness ==
    /\ op = "prefixTest"
    /\ ret.kind = "Decimal"
    /\ args.form = "abbr"
    /\ Catalog[args.unit].kind = "decimal"
    /\ Catalog[args.unit].power = 8
    /\ args.numunits = MaxNumUnits
    /\ ret.value = DecFromInt(MaxNumUnits)

\* a query of the single caller that found the stored hash up to date has
\* reached its return statement without reading /proc/mounts again
CacheHit == pc[1] = "lookup" /\ lineno[1] = 0

\* the mountpoints recorded under every key are the same in both tables
SameRecorded(before, after) ==
    /\ DOMAIN before \subseteq DOMAIN after
    /\ \A k \in DOMAIN after : DictGet(after, k) = DictGet(before, k)

\* what a query does in one step, as the hash gate requires it
HashGatedStep ==
    \* a query first hashes the mount table, touching nothing of the cache
    /\ (pc[1] = "idle" /\ pc'[1] # "idle") =>
        /\ pc'[1] = "check"
        /\ md5hash'[1] = md5_file(ProcMounts(procState))
        /\ mountsHash' = mountsHash /\ mountpoints' = mountpoints
    \* the table is rebuilt iff the hash differs from the stored hash, which
    \* is then set to the new hash; otherwise nothing is stored or re-read
    /\ (pc[1] = "check" /\ pc'[1] # "check") =>
        IF md5hash[1] # mountsHash
        THEN pc'[1] = "open" /\ mountsHash' = md5hash[1]
        ELSE /\ pc'[1] = "lookup" /\ CacheHit'
             /\ mountsHash' = mountsHash /\ mountpoints' = mountpoints
             /\ mounts'[1] = NoLines /\ mountinfo'[1] = NoMountinfo
    \* a rebuild starts from the empty table and the mount table as it is
    /\ (pc[1] = "open" /\ pc'[1] # "open") =>
        /\ mountpoints' = EmptyDict
        /\ mounts'[1] = ProcMounts(procState)
        /\ mountsHash' = mountsHash
    \* the table is emptied by a rebuild only
    /\ (mountpoints # EmptyDict /\ mountpoints' = EmptyDict) => pc[1] = "open"
    \* the return of a query that found the hash up to date
    /\ (CacheHit /\ pc'[1] = "idle") =>
        /\ mountsHash' = mountsHash
        /\ SameRecorded(mountpoints, mountpoints')
        /\ result'[1] = QueryResult(mountpoints, query[1])
    \* on a fresh cache the first query rebuilds
    /\ (mountsHash = InitialHash /\ pc[1] = "check" /\ pc'[1] # "check") =>
        pc'[1] = "open"

\* C2: hash-gated invalidation of the mounts cache.  Every query first
\* hashes the mount table; the table is rebuilt from the mount table if and
\* only if that hash differs from the stored hash, which is then set to the
\* new hash; when the hashes are equal the query leaves the stored hash and
\* the mountpoints recorded under every key as they were and reads neither
\* file again (a key getMountpoints looks up and does not find appears in
\* the table with an empty list, recording no mountpoint); the first query
\* on a fresh cache always rebuilds.
C2_HashGatedInvalidation == [][HashGatedStep]_vars

\* a second query found the hash of a filled table up to date
C2_Witness ==
    /\ CacheHit
    /\ calls = 2
    /\ mountpoints # EmptyDict
    /\ mountsHash = md5_file(ProcMounts(procState))
    /\ query[1].name = "getMountpoints"
    /\ QueryKey(query[1]) \notin DOMAIN mountpoints

\* roundToNearest has returned from a call with a supported rounding mode
RoundedWith(modes) ==
    /\ op = "roundToNearest"
    /\ ret.kind # "pending"
    /\ args.rounding \in modes

HalfUpModes == {RoundingOmitted, ROUND_HALF_UP}
SupportedModes == HalfUpModes \cup {ROUND_DOWN, ROUND_UP}

\* C3: the rounding modes of roundToNearest are mutually consistent.  For a
\* non-negative Size v and a positive granularity g the result is a multiple
\* of g; an exact multiple is returned as it is by every mode; exactly
\* halfway between two multiples, half-up and up give the larger and down
\* the smaller; down gives the largest multiple not above v, up the
\* smallest not below v, half-up (the default) the nearest.
C3_RoundingModesConsistent ==
    (RoundedWith(SupportedModes) /\ args.bytes >= 0 /\ args.granularity > 0) =>
        /\ ret.kind = "Size"
        /\ LET v == args.bytes
               g == args.granularity
               r == Bytes(ret)
               below == v - (v % g)
           IN  /\ r % g = 0
               /\ (v % g = 0) => r = v
               /\ (2 * (v % g) = g) =>
                    r = IF args.rounding = ROUND_DOWN THEN below ELSE below + g
               /\ (args.rounding = ROUND_DOWN) => (r <= v /\ v < r + g)
               /\ (args.rounding = ROUND_UP) => (r >= v /\ v > r - g)
               /\ (args.rounding \in HalfUpModes) => 2 * Abs(r - v) <= g

\* 1536 bytes, halfway between 1 KiB and 2 KiB, rounded with the default
\* mode to 2 KiB
C3_Witness ==
    /\ RoundedWith({RoundingOmitted})
    /\ args.bytes = 1536
    /\ args.granularity = 1024
    /\ ret.kind = "Size"
    /\ Bytes(ret) = 2048

\* C8: validation in roundToNearest.  The call fails with a ValueError and
\* returns no Size whenever the rounding mode is not one of the three
\* supported ones (ROUND_HALF_DOWN of decimal and an arbitrary string
\* included) or the granularity is negative; with a granularity of zero it
\* returns Size(0) for every value and every supported mode; in every other
\* case it returns a Size.
C8_RoundToNearestValidation ==
    RoundedWith(RoundingModes) =>
        IF args.rounding \notin SupportedModes \/ args.granularity < 0
        THEN ret = RaiseValueError
        ELSE /\ ret.kind = "Size"
             /\ DecIsIntegral(ret.value)
             /\ (args.granularity = 0) => ret = SizeFromInt(0)

\* ROUND_HALF_DOWN of decimal has been refused
C8_Witness ==
    /\ RoundedWith({"ROUND_HALF_DOWN"})
    /\ args.granularity > 0
    /\ ret = RaiseValueError

\* t[a..b-1] is a non-empty run of digits
GrammarDigits(t, a, b) == a < b /\ \A k \in a..(b - 1) : IsDigit(t[k])

\* t[a..b-1] is the mantissa: digits ["." digits] | "." digits | digits "."
GrammarMantissa(t, a, b) ==
    \/ GrammarDigits(t, a, b)
    \/ \E dot \in a..(b - 1) :
        /\ t[dot] = "."
        /\ dot > a \/ dot + 1 < b
        /\ dot > a => GrammarDigits(t, a, dot)
        /\ dot + 1 < b => GrammarDigits(t, dot + 1, b)

\* t[a..b-1] is empty or an exponent: ("e"|"E") [sign] digits
GrammarExponent(t, a, b) ==
    \/ a = b
    \/ /\ a < b
       /\ IsExpMark(t[a])
       /\ \/ GrammarDigits(t, a + 1, b)
          \/ a + 1 < b /\ IsSignChar(t[a + 1]) /\ GrammarDigits(t, a + 2, b)

\* t[a..b-1] is empty or a token without whitespace that names a unit
GrammarUnit(t, a, b) ==
    \/ a = b
    \/ /\ \A k \in a..(b - 1) : ~IsSpace(t[k])
       /\ parseUnits(SubSeq(t, a, b - 1)) # 0

\* the text is
\*   [sign] mantissa [exponent] [whitespace] [unit_token]
\* within optional whitespace, the unit token naming a unit of the catalog
MatchesGrammar(t) ==
    \E first \in 1..(Len(t) + 1) : \E last \in first..(Len(t) + 1) :
        /\ \A k \in 1..(first - 1) : IsSpace(t[k])
        /\ \A k \in last..Len(t) : IsSpace(t[k])
        /\ \E i1 \in {first, first + 1} :
            /\ i1 <= last
            /\ i1 > first => IsSignChar(t[first])
            /\ \E i3 \in (i1 + 1)..last :
                /\ GrammarMantissa(t, i1, i3)
                /\ \E i4 \in i3..last :
                    /\ GrammarExponent(t, i3, i4)
                    /\ \E i5 \in i4..last :
                        /\ \A k \in i4..(i5 - 1) : IsSpace(t[k])
                        /\ GrammarUnit(t, i5, last)

\* C4: parseSpec fails with a ValueError, yielding no Size and no partly
\* parsed value, for every text that does not match the grammar of spec
\* strings (a sign separated from the digits, a lone radix point, an
\* exponent marker without digits, an exponent without mantissa, a unit
\* without number, two radix points, stray words); every text that matches
\* it with a unit of the catalog or no unit parses; the parse tests of
\* tests/size_test.py raise and return what they expect.
C4_GrammarErrors ==
    (op = "parseSpec" /\ ret.kind # "pending") =>
        /\ IF MatchesGrammar(args.spec)
           THEN ret.kind = "Decimal"
           ELSE ret = RaiseValueError /\ SizeFromSpec(args.spec) = RaiseValueError
        /\ \A test \in ParseSpecTests :
            test.spec = args.spec =>
                IF test.raises THEN ret = RaiseValueError
                ELSE ret.kind = "Decimal" /\ ret.value = test.value

\* "1.0e+ KiB", an exponent marker with no digits after it, has been refused
C4_Witness ==
    /\ op = "parseSpec"
    /\ args.spec = <<"1", ".", "0", "e", "+", " ", "K", "i", "B">>
    /\ ret = RaiseValueError

\* an operation on a left and a right operand kind
Operation(operator, left, right) ==
    [operator |-> operator, left |-> left, right |-> right]

\* the operations said to return a Size and those said to return a plain
\* Decimal (Q a Size, N a plain number), leaving out Q*Q
QuantityResults ==
    {Operation("+", "Size", "Size"), Operation("-", "Size", "Size"),
     Operation("*", "Size", "Number"), Operation("*", "Number", "Size"),
     Operation("/", "Size", "Number"), Operation("//", "Size", "Number"),
     Operation("%", "Size", "Size"), Operation("%", "Size", "Number")}
PlainResults ==
    {Operation("**", "Size", "Number"), Operation("**", "Number", "Size"),
     Operation("**", "Size", "Size"), Operation("-", "Number", "Size"),
     Operation("/", "Number", "Size")}
SizeTimesSize == Operation("*", "Size", "Size")

ArithmeticReturned == op = "arithmetic" /\ ret.kind # "pending"

LiteralExp(lit) == lit.exp.value - Len(lit.frac)
LiteralNum(lit) ==
    DigitsToInt(lit.int \o lit.frac) * Pow(10, Pos(LiteralExp(lit)))
    * Pow(2, FactorP2(Catalog[lit.unit.unit])) * Pow(5, FactorP5(Catalog[lit.unit.unit]))
LiteralDen(lit) == Pow(10, Pos(0 - LiteralExp(lit)))

\* bytes is num / den truncated toward zero, for a value of the given sign
TruncatedTowardZero(bytes, negative, num, den) ==
    /\ Abs(bytes) * den <= num
    /\ num < (Abs(bytes) + 1) * den
    /\ bytes # 0 => (bytes < 0 <=> negative)

\* C6: a Size built from a spec string holds a whole number of bytes, the
\* exact value (mantissa * 10^exponent * unit factor) truncated toward zero
\* and never rounded: "1024.6" is 1024 bytes, a value strictly between 0 and
\* 1 byte is 0, a value in [1, 2) is 1, and Size("0.0") equals Size(0).
C6_TruncatesTowardZero ==
    (op = "Size" /\ ret.kind # "pending") =>
        /\ ret.kind = "Size"
        /\ DecIsIntegral(ret.value)
        /\ TruncatedTowardZero(Bytes(ret), args.literal.negative,
                               LiteralNum(args.literal), LiteralDen(args.literal))
        /\ LiteralNum(args.literal) < LiteralDen(args.literal) =>
            ret = SizeFromInt(0)
        /\ (/\ LiteralDen(args.literal) <= LiteralNum(args.literal)
            /\ LiteralNum(args.literal) < 2 * LiteralDen(args.literal)) =>
            Abs(Bytes(ret)) = 1

\* Size("1024.6") has been built and is 1024 bytes
C6_Witness ==
    /\ op = "Size"
    /\ args.spec = <<"1", "0", "2", "4", ".", "6">>
    /\ ret = SizeFromInt(1024)

\* coeff * 2^shift bytes counted in the binary prefix of rank j (plain bytes
\* for j = 0) are at least tenths / 10; coeff < 2^11 and tenths <= 100, so
\* a power of two beyond 2^14 decides by itself
ReachesMinValue(coeff, shift, j, tenths) ==
    LET d == shift - 10 * j
    IN  /\ coeff # 0
        /\ IF d >= 0
           THEN d > 7 \/ 10 * coeff * Pow(2, d) >= tenths
           ELSE 0 - d <= 14 /\ 10 * coeff >= tenths * Pow(2, 0 - d)

HumanReadableReturned == op = "humanReadable" /\ ret.kind # "pending"

\* C7: unit selection in humanReadable.  The display unit is the largest of
\* B, KiB, ..., YiB in which the magnitude of the converted value is at
\* least min_value; so with min_value = 10 no unit but plain bytes shows an
\* integer part below 10, and a value of more than 1024 YiB is still shown
\* in YiB.
C7_UnitSelection ==
    HumanReadableReturned =>
        /\ ret.unit \in 0..Len(BINARY_PREFIXES)
        /\ ret.unit # 0 =>
            ReachesMinValue(args.coeff, args.shift, ret.unit, args.tenths)
        /\ \A j \in (ret.unit + 1)..Len(BINARY_PREFIXES) :
            ~ReachesMinValue(args.coeff, args.shift, j, args.tenths)
        /\ (args.coeff # 0 /\ args.shift >= 90) => ret.unit = Len(BINARY_PREFIXES)

\* 9 MiB with min_value = 10 is shown in KiB
C7_Witness ==
    /\ HumanReadableReturned
    /\ args.coeff = 9 /\ args.shift = 20 /\ args.tenths = 100
    /\ ret.unit = 1

RECURSIVE DeriveTable(_, _, _)
\* the table _getActiveMounts builds from the lines of /proc/mounts and a
\* filled mountinfo cache when nothing interferes
DeriveTable(lines, cache, table) ==
    IF lines = <<>> THEN table
    ELSE DeriveTable(Tail(lines), cache, ActiveMountsLine(table, Head(lines), cache))

\* the table derived from /proc/mounts as it was in one state of the system
\* and /proc/self/mountinfo as it was in another
TableOf(mountsState, mountinfoState) ==
    DeriveTable(ProcMounts(mountsState),
                MountinfoGetCache(ProcMountinfo(mountinfoState), EmptyDict),
                EmptyDict)

\* the query of caller c has returned
Returned(c) == pc[c] = "idle" /\ result[c] # NoResult

\* C9: stale-but-self-consistent snapshots.  With a single caller and the
\* mount state free to change at any moment, what a query returns is what
\* the table derived from one single earlier state of /proc/mounts and
\* /proc/self/mountinfo gives for it; it may lag behind, it never mixes
\* two states.
C9_SelfConsistentSnapshot ==
    Returned(1) =>
        \E state \in history :
            result[1] = QueryResult(TableOf(state, state), query[1])

\* what caller c got is what some content /proc/mounts ever had gives for
\* its query (with /proc/self/mountinfo as it was at some moment)
DerivedResult(c) ==
    \E mountsState \in history : \E mountinfoState \in history :
        result[c] = QueryResult(TableOf(mountsState, mountinfoState), query[c])

\* C10: one cache is not safe for two callers without an external lock.  A
\* refresh stores the new hash before it rebuilds the table, and rebuilds it
\* by emptying it and appending line by line, so a second caller can find
\* the hash up to date and return from an empty or partly rebuilt table a
\* result no content of the mount table gives; when an external lock
\* serializes the queries every result is one that some content of the
\* mount table gives.
C10_SafeUnderLock ==
    locked => \A c \in Callers : Returned(c) => DerivedResult(c)

\* without the lock and with the mount table unchanged: caller 1 is the one
\* rebuilding the table, caller 2 found the hash up to date and has returned
\* a result that no content of the mount table gives
C10_Witness ==
    /\ ~locked
    /\ changes = 0
    /\ pc[1] = "lines"
    /\ mountsHash = md5_file(mounts[1])
    /\ Returned(2)
    /\ query[2].name = "getMountpoints"
    /\ ~DerivedResult(2)

\* path is the mount point of at least one line of /proc/mounts in a state
IsMountPointIn(state, path) ==
    \E i \in 1..Len(ProcMounts(state)) :
        /\ Len(ProcMounts(state)[i]) >= 2
        /\ ProcMounts(state)[i][2] = path

\* isMountpoint has returned to caller c
IsMountpointReturned(c) == Returned(c) /\ query[c].name = "isMountpoint"

\* C11: isMountpoint(path) returns true exactly when path is the mount point
\* of at least one line of the mount table, whatever its device or
\* filesystem type, and false otherwise; the whole path is matched, and an
\* earlier getMountpoints for a device without mounts changes no answer.
\* The mount table is taken as it is or as it was at any earlier moment, so
\* that an answer that merely lags behind is accepted.
C11_IsMountpointExact ==
    IsMountpointReturned(1) =>
        \E state \in history :
            result[1].value = IsMountPointIn(state, query[1].path)

\* the same while the mount table has never changed
C11_IsMountpointExactUnchanged ==
    (IsMountpointReturned(1) /\ history = {procState}) =>
        result[1].value = IsMountPointIn(procState, query[1].path)

\* the root mountinfo shows in a state for a btrfs mount of a device on a
\* mount point (the last such line counts), None when it shows none
RootIn(state, devspec, mountpoint) ==
    LET shown == {i \in 1..Len(state) :
                    /\ state[i].fstype = "btrfs"
                    /\ state[i].devspec = devspec
                    /\ state[i].mountpoint = mountpoint}
    IN  IF shown = {} THEN NoneKey
        ELSE state[CHOOSE i \in shown : \A j \in shown : j <= i].root

\* the subvolume a root stands for: the root without its leading slash, the
\* id of the main volume for "/"
SubvolOf(root) == IF root = <<"/">> THEN <<"5">> ELSE SubSeq(root, 2, Len(root))

\* a line of /proc/mounts is recorded under the key, mountinfo being as it
\* was in infoState
RecordedUnder(line, infoState, key) ==
    /\ Len(line) >= 4
    /\ line[1] = key[1]
    /\ IF line[3] # "btrfs" THEN key[2] = NoneKey
       ELSE /\ RootIn(infoState, line[1], line[2]) # NoneKey
            /\ key[2] = SubvolOf(RootIn(infoState, line[1], line[2]))

\* the mount points of the lines recorded under the key, one per line and
\* in line order
MountPointsUnder(lines, infoState, key) ==
    LET Recorded(line) == RecordedUnder(line, infoState, key)
        selected == SelectSeq(lines, Recorded)
    IN  [i \in 1..Len(selected) |-> selected[i][2]]

\* the keys looked at: those of the table and those a query can ask for
KeysOfInterest ==
    DOMAIN mountpoints \cup
    {<<d, sv>> : d \in DevSpecs, sv \in {NoneKey, <<"s", "v">>, <<"5">>}}

\* the single caller has rebuilt the table and is about to return
Refreshed == pc[1] = "lookup" /\ lineno[1] > 0

\* C12: keying of the derived table.  After a refresh getMountpoints(dev,
\* None) returns the mount points of the well-formed lines of /proc/mounts
\* whose device is dev and whose type is not btrfs, in line order, one per
\* line; a btrfs line is recorded only under (dev, subvol), subvol being
\* its root in mountinfo without the leading slash, or the id of the main
\* volume for the root "/"; a subvolume given as a number is matched by
\* its string form; a line of fewer than four fields is skipped and the
\* others are not affected; a key without matching line gives the empty
\* list.
C12_TableKeying ==
    Refreshed =>
        \E infoState \in history :
            /\ \A key \in KeysOfInterest :
                DictGet(mountpoints, key) =
                    MountPointsUnder(mounts[1], infoState, key)
            /\ query[1].name = "getMountpoints" =>
                QueryResult(mountpoints, query[1]).value =
                    MountPointsUnder(mounts[1], infoState,
                        <<query[1].devspec,
                          IF query[1].subvolspec.type = "None" THEN NoneKey
                          ELSE query[1].subvolspec.v>>)

\* the table was rebuilt from three lines, the cut one skipped, the btrfs
\* one recorded under its subvolume, and the main volume is asked for by
\* number
C12_Witness ==
    /\ Refreshed
    /\ mounts[1] = ProcMounts(BtrfsSubvolAndExt4)
    /\ DictGet(mountpoints, <<"/dev/d1", <<"s", "v">>>>) = <<"/a">>
    /\ DictGet(mountpoints, <<"/dev/d2", NoneKey>>) = <<"/b">>
    /\ query[1] = GetMountpointsQuery("/dev/d1", IntSubvol(MAIN_VOLUME_ID))

\* a table without its keys that hold an empty list
Recorded(table) ==
    [k \in {key \in DOMAIN table : table[key] # <<>>} |-> table[k]]

\* C13: cache coherence.  Whenever no query is in progress and the stored
\* hash equals the hash of the current content of the mount table, the
\* recorded mountpoints (keys with an empty list set aside) are the table
\* derived from that current content; for a single caller, under every
\* sequence of queries and changes of the mount table, a change between the
\* hash computation and the read of the table and a later change back
\* included.
C13_CacheCoherent ==
    (pc[1] = "idle" /\ mountsHash = md5_file(ProcMounts(procState))) =>
        Recorded(mountpoints) = Recorded(TableOf(procState, procState))

\* the rebuild of the single caller's query aborts with an exception
RefreshAborts == pc[1] \in {"open", "lines"} /\ result'[1].kind = "raised"

\* C14: failure atomicity of a refresh.  If rebuilding the table aborts with
\* an error (/proc/mounts or /proc/self/mountinfo cannot be read, or a line
\* of mountinfo has no "-" field) the cache is left as it was before the
\* query, stored hash and recorded mountpoints unchanged; the stored hash
\* is therefore not the one the aborted query computed, and the next query
\* sees a mismatch and refreshes again instead of serving an empty or
\* partial table as current.
C14_RefreshFailureAtomic ==
    [][RefreshAborts => (mountsHash' = mountsHash /\ mountsHash' # md5hash[1])]_vars

====
